---- MODULE Spec2Model ----
(***************************************************************************)
(* Associative Compression Networks: the prior's code table, its nearest-  *)
(* neighbour index and the training loops of the two training scripts      *)
(* (train_mnist_vqdeconv_acn.py, train_mnist_pcnn_tacn.py).                 *)
(*                                                                         *)
(* Latent codes are tuples of integers; distances are squared Euclidean    *)
(* distances, which order points exactly as Euclidean distances do.  Row   *)
(* indices are 1-based here (0-based in numpy); neighbour positions keep   *)
(* the 0-based numbering of rdn.randint(0, k).                              *)
(***************************************************************************)
EXTENDS Integers, Sequences, FiniteSets, TLC

\* ---------------------------------------------------------------- bounds
SizeTrainingSet == 3
SizeValidSet == 3
BatchSize == 2
NumK == 2
NumEpochs == 2
SaveEveryEpochs == 2
MaxRows == 3
MaxDim == 2
NumZ == 2
NumLocs == 2
CanvasSide == 2
MaxBatches == 3

\* -------------------------------------------------------- program constants
SampleLimit == 10
NameWidth == 10
ImageSide == 28
InputChannels == 1
ClipVal == 10

\* num_examples_to_train, chosen so that the loop runs NumEpochs epochs
NumExamplesToTrain == NumEpochs * SizeTrainingSet

\* latent codes the encoder can produce / the table can be seeded with
Codes == {<<0, 0>>, <<1, 2>>}

\* the points of the unit-test harness of the prior (coordinates doubled, so
\* that the query [0.5, 0.5] of the scenario is the integer point <<1, 1>>)
Scenario == [table |-> << <<0, 0>>, <<20, 20>>, <<2, 2>>, <<-10, -10>> >>,
             query |-> <<1, 1>>,
             k     |-> 2]
ScenarioTable == Scenario.table
ScenarioQuery == Scenario.query
ScenarioK == Scenario.k
HarnessCodes == {<<0, 0>>, <<2, 2>>, <<5, 5>>}
HarnessQueries == {ScenarioQuery, <<2, 2>>}

\* posterior means, log-variances (in units of 2 ln 2) and noise draws of the
\* encoders called on their own
Means == {-1, 2}
LogVars == {0, 1}
Noise == {-1, 0, 1}

\* rows of a VQ codebook of dimension NumZ: constant ones, rising ones
Const(v) == [d \in 1..NumZ |-> v]
Ramp(v) == [d \in 1..NumZ |-> v + d]

\* the codebook [[-1,-1],[1,1]] and the input [0.9,0.9] of the scenario, with
\* coordinates multiplied by 10
VqScenario == [weight |-> <<Const(-10), Const(10)>>, input |-> Const(9)]

\* codebooks: the scenario's, one of three entries, one whose entries coincide
Codebooks == {VqScenario.weight, <<Const(0), Ramp(8), Const(-10)>>, <<Const(9), Const(9)>>}
MaxEntries == Len(CHOOSE E \in Codebooks : \A F \in Codebooks : Len(F) <= Len(E))

\* entries of a latent tensor z_e_x, of shape (1, NumZ, 1, NumLocs)
ZVals == {0, VqScenario.input[1]}
Latents == [1..NumZ -> [1..NumLocs -> ZVals]]

\* parameters of the prior's three linear layers (code_length 2, n_hidden 2)
PriorParams ==
    {[fc1   |-> [w |-> << <<1, -1>>, <<0, 1>> >>, b |-> <<0, -1>>],
      fc2_u |-> [w |-> << <<1, 0>>, <<1, 1>> >>,  b |-> <<0, 1>>],
      fc2_s |-> [w |-> << <<-1, 1>>, <<0, 2>> >>, b |-> <<1, 0>>]],
     [fc1   |-> [w |-> << <<2, 0>>, <<-1, 1>> >>, b |-> <<-1, 0>>],
      fc2_u |-> [w |-> << <<0, 1>>, <<1, -1>> >>, b |-> <<2, 0>>],
      fc2_s |-> [w |-> << <<1, 1>>, <<1, 0>> >>,  b |-> <<0, -1>>]]}

\* preserve_args of create_models
PreserveArgs == {"device", "batch_size", "save_every_epochs", "base_filepath",
                 "model_loadpath", "perplexity", "use_pred"}

\* the keys an info record always has on the command line (largs = info['args'])
\* and in a checkpoint (train_cnts and epoch_cnt are read after the merge), and
\* keys either may have or lack: two of preserve_args, one outside it
CmdKeys == {"args"}
CkptKeys == {"args", "train_cnts", "epoch_cnt"}
OptionalKeys == {"device", "use_pred", "learning_rate"}

\* the value a key has on the command line, and in the checkpoint: the args
\* are lists of argument records, every other value is told by where it is from
CmdVal(key) == IF key = "args" THEN <<"args of this run">> ELSE <<"cmd", key>>
CkptVal(key) == IF key = "args" THEN <<"args of the run before">> ELSE <<"ckpt", key>>

CmdInfos == {[key \in CmdKeys \cup S |-> CmdVal(key)] : S \in SUBSET OptionalKeys}
CkptInfos == {[key \in CkptKeys \cup S |-> CkptVal(key)] : S \in SUBSET OptionalKeys}

\* the encoder/decoder classes with an encoder_output_size, the code lengths
\* and codebook dimensions they are built with, and the sizes handed in
Classes == {"ConvEncodeDecode", "ConvEncodeDecodeLargeVQVAE", "ACNVQVAEres"}
CodeLens == {1, 2}
NumZs == {1, 2}
EncoderOutputSizes == {9, 16, 32, 98, 196, 784, 1024}

\* gradients handed to backward: all ones, or a different value at each place
Grads == {[d \in 1..NumZ |-> [l \in 1..NumLocs |-> 1]],
          [d \in 1..NumZ |-> [l \in 1..NumLocs |-> 10 * d + l]]}

\* train counts, written in decimal digits (the largest is 10^10 - 1): counts
\* of one to ten digits, with neighbours across a change of length
AllNines == [i \in 1..NameWidth |-> 9]
TrainCounts == {<<9>>, <<1, 0>>, <<9, 9>>, <<1, 0, 0>>, <<6, 0, 0, 0, 0>>,
                [i \in 1..NameWidth |-> IF i = 1 THEN 1 ELSE 0], AllNines}

\* what a backward pass can add to the gradient of one parameter
Gradients == {-25, -3, 0, 4, 30}

\* the values sample_from_discretized_mix_logistic can yield for a pixel (a
\* sampled pixel is told from the zero of the blank canvas)
PixelValues == {1, 2, 3}

TrainIdx == 1..SizeTrainingSet
ValidIdx == 1..SizeValidSet

VARIABLES
    script,       \* "vq" (train_mnist_vqdeconv_acn.py) or "pcnn" (train_mnist_pcnn_tacn.py)
    args,         \* the alternate-action flags of the command line
    pc,           \* position of the script
    todo,         \* example indices the current data-loader pass has not yielded yet
    epoch_cnt,    \* train_acn's epoch_cnt
    train_cnt,    \* train_acn's train_cnt
    codes,        \* prior_model.codes: the code table, one row per training example
    knnX,         \* the points the fitted nearest-neighbour index searches
    k,            \* prior_model.k
    training,     \* prior_model.training (set by set_model_mode)
    tie,          \* the index implementation's fixed order among equidistant rows
    batch_index,  \* indices of the batch processed last
    u_q,          \* posterior means computed for the batch processed last
    nbr,          \* neighbor_indexes of the last prior query
    chosen,       \* chosen_neighbor_index of the last prior query
    prev_codes,   \* rows returned by the last batch_pick_close_neighbor
    q_codes,      \* the query codes handed to the prior last
    q_knn,        \* the points the index searched when it was queried last
    q_mode,       \* "none", or the phase whose batch made the last query
    latest,       \* per example: code computed in the latest training batch holding it
    memo,         \* the first (query, row) of the call before, if in evaluation mode
    rdn,          \* prior_model.rdn: "constructed", or "advanced" by a randint draw
    seed_codes,   \* the table RandomState(random_seed) yields at construction
    opt_steps,    \* calls of model_dict['opt'].step() made by this process
    log_written,  \* write_log_files(info) was called by this process
    info,         \* info['train_cnts'] and info['epoch_cnt']
    files,        \* the checkpoint files of the experiment's directory
    written,      \* the file names save_checkpoint wrote, in order, over all runs
    log_ones,     \* rows of run's placeholder log_ones; 0 while it is unbound
    run_local,    \* run's locals train_cnt, idx and example
    inp,          \* the arguments of the component call made last
    out           \* what that call returned

vars == <<script, args, pc, todo, epoch_cnt, train_cnt, codes, knnX, k, training,
          tie, batch_index, u_q, nbr, chosen, prev_codes, q_codes, q_knn,
          q_mode, latest, memo, rdn, seed_codes, opt_steps, log_written, info,
          files, written, log_ones, run_local, inp, out>>

\* the variables of a component called on its own
callVars == <<inp, out>>

\* the models, the counters and the last query: all but pc and what follows
modelVars == <<script, args, todo, epoch_cnt, train_cnt, codes, knnX, k, training,
               tie, batch_index, u_q, nbr, chosen, prev_codes, q_codes, q_knn,
               q_mode, latest, memo, rdn, seed_codes>>

\* what a training process keeps besides the models
runVars == <<opt_steps, log_written, info, files, written, log_ones, run_local>>

\* ------------------------------------------------------------- helpers
RECURSIVE SumSq(_, _, _)
SumSq(a, b, i) ==
    IF i = 0 THEN 0 ELSE (a[i] - b[i]) * (a[i] - b[i]) + SumSq(a, b, i - 1)

\* squared Euclidean distance (the metric of KNeighborsClassifier's default)
Dist2(a, b) == SumSq(a, b, Len(a))

Min(a, b) == IF a < b THEN a ELSE b

\* rank of row i among equidistant rows
Rank(t, i) == IF i \in DOMAIN t THEN t[i] ELSE i

\* row i is listed before row j for query q
Before(X, q, t, i, j) ==
    \/ Dist2(X[i], q) < Dist2(X[j], q)
    \/ Dist2(X[i], q) = Dist2(X[j], q) /\ Rank(t, i) < Rank(t, j)

RECURSIVE KNeighborsFrom(_, _, _, _, _)
KNeighborsFrom(X, q, kk, t, found) ==
    IF Len(found) = kk
    THEN found
    ELSE LET rest == {i \in 1..Len(X) : \A m \in 1..Len(found) : found[m] # i}
             best == CHOOSE i \in rest : \A j \in rest \ {i} : Before(X, q, t, i, j)
         IN  KNeighborsFrom(X, q, kk, t, Append(found, best))

RECURSIVE FarNeighborsFrom(_, _, _, _, _)
FarNeighborsFrom(X, q, kk, t, found) ==
    IF Len(found) = kk
    THEN found
    ELSE LET rest == {i \in 1..Len(X) : \A m \in 1..Len(found) : found[m] # i}
             best == CHOOSE i \in rest : \A j \in rest \ {i} : Before(X, q, t, j, i)
         IN  FarNeighborsFrom(X, q, kk, t, Append(found, best))

\* a nearest-neighbour search that lists the farthest rows first
KNeighborsFarthest(X, q, kk, t) == FarNeighborsFrom(X, q, kk, t, <<>>)

\* self.knn.kneighbors(codes, n_neighbors=self.k): for one query, the kk rows
\* of the fitted points nearest to it, nearest first
KNeighbors(X, q, kk, t) == KNeighborsFrom(X, q, kk, t, <<>>)

\* ------------------------------------------------------- PriorNetwork
\* a selection that ignores the mode and always draws among the kk positions
ChosenPositionsAlwaysRandom(isTraining, kk) == 0..(kk - 1)

\* chosen_neighbor_index: rdn.randint(0, neighbor_indexes.shape[1]) in
\* training mode, 0 otherwise
ChosenPositions(isTraining, kk) == IF isTraining THEN 0..(kk - 1) ELSE {0}

\* a lookup that indexes the table with the position instead of the neighbour
PickRowByPosition(c, nb, pos) == c[pos + 1]

\* self.codes[neighbor_indexes[np.arange(bsize), chosen_neighbor_index]]
PickRow(c, nb, pos) == c[nb[pos + 1]]

\* fit_knn: self.codes = codes; self.knn.fit(self.codes, y)
FitKnn(c) == [codes |-> c, knn |-> c]

\* an update that appends the batch's codes to the table
UpdateCodesAppend(c, batch, u) ==
    LET RECURSIVE App(_, _)
        App(t, S) == IF S = {} THEN t
                     ELSE LET i == CHOOSE x \in S : \A y \in S : x <= y
                          IN  App(Append(t, u[i]), S \ {i})
    IN  App(c, batch)

\* an update that overwrites the whole table with one of the batch's codes
UpdateCodesAll(c, batch, u) ==
    [i \in 1..Len(c) |-> IF i \in batch THEN u[i] ELSE u[CHOOSE j \in batch : TRUE]]

\* codes[batch_index] = u_q.detach().cpu().numpy()
UpdateCodes(c, batch, u) ==
    [i \in 1..Len(c) |-> IF i \in batch THEN u[i] ELSE c[i]]

\* the state of self.rdn after batch_pick_close_neighbor: randint is drawn in
\* training mode only
RdnAfter(r, isTraining) == IF isTraining THEN "advanced" ELSE r

\* forward: batch_pick_close_neighbor over the batch of query codes q, against
\* the table c and the fitted points X
PriorForward(c, X, q, isTraining) ==
    /\ q_codes' = q
    /\ rdn' = RdnAfter(rdn, isTraining)
    /\ nbr' = [e \in DOMAIN q |-> KNeighbors(X, q[e], k, tie)]
    /\ chosen' \in [DOMAIN q -> ChosenPositions(isTraining, k)]
    /\ prev_codes' = [e \in DOMAIN q |-> PickRow(c, nbr'[e], chosen'[e])]
    /\ q_knn' = X

\* model_dict['prior_model'](u_q) inside a batch of a training script: the
\* neighbours retrieved are kept for inspection; the row picked among them is
\* a local of forward that only feeds encode and the loss, and is gone when
\* the batch ends
PriorCall(X, q) ==
    /\ q_codes' = q
    /\ rdn' = RdnAfter(rdn, training')
    /\ nbr' = [e \in DOMAIN q |-> KNeighbors(X, q[e], k, tie)]
    /\ chosen' = <<>>
    /\ prev_codes' = <<>>
    /\ q_knn' = X

\* set_model_mode(model_dict, phase): train() for 'train', eval() otherwise
SetModelMode(phase) == (phase = "train")

\* tPTPriorNetwork.update_codebook(batch_index, codes)
UpdateCodebook(c, batch, u) == FitKnn(UpdateCodes(c, batch, u))

\* ------------------------------------------------------- data loaders
\* the batches a loader can yield next from the indices it has not yielded
Batches(S) == {b \in SUBSET S : Cardinality(b) = Min(BatchSize, Cardinality(S))}

\* data[:bs] with bs = min(data.shape[0], 10)
FirstExamples(b) == {s \in SUBSET b : Cardinality(s) = Min(Cardinality(b), SampleLimit)}

\* len(data_loader) for a data set of n examples
NumBatches(n) == (n + BatchSize - 1) \div BatchSize

\* the indices a pass over data_dict[phase] yields
LoaderIdx(phase) == IF phase = "train" THEN TrainIdx ELSE ValidIdx

\* no call of run / run_acn is under way
NoLocals == [train_cnt |-> 0, idx |-> 0, example |-> "unbound"]

\* run(train_cnt, ..) / run_acn(train_cnt, ..) is entered: the count is the
\* caller's, example is not bound yet
EnterRun(tc) == [train_cnt |-> tc, idx |-> 0, example |-> "unbound"]

\* --rec_loss_type: the choices of each script's parser, and the default
RecLossTypes(s) == IF s = "pcnn" THEN {"dml"} ELSE {"bce", "dml"}
RecLossType == "dml"

\* the local example after the iteration idx of a loop over num_batches
\* batches: if idx == num_batches-2: example = {..}.  run samples pcnn_yhat
\* right there; run_acn binds yhat_batch only if rec_loss_type == 'dml' and
\* reads it in the dict, which raises UnboundLocalError otherwise
ExampleAfter(s, rec_loss_type, idx, num_batches, example) ==
    IF idx = num_batches - 2
    THEN IF s = "vq" /\ rec_loss_type # "dml" THEN "raised" ELSE "bound"
    ELSE example

\* one iteration of the loop over the data loader, for the locals l of run /
\* run_acn: if phase == 'train': train_cnt += bs; the example; idx is
\* enumerate's counter
RunLocals(phase, b, l) ==
    [train_cnt |-> IF phase = "train" THEN l.train_cnt + Cardinality(b) ELSE l.train_cnt,
     idx       |-> l.idx + 1,
     example   |-> ExampleAfter(script, RecLossType, l.idx,
                                NumBatches(Cardinality(LoaderIdx(phase))), l.example)]

\* return model_dict, data_dict, loss_avg, example: reading an unbound local
\* raises UnboundLocalError
Returns(l) == l.example = "bound"

\* a whole pass of run / run_acn over a loader of num_batches batches, from
\* iteration idx on: what the call ends in, and the example it holds then
RECURSIVE RunFrom(_, _, _, _, _)
RunFrom(s, rec_loss_type, num_batches, idx, example) ==
    IF example = "raised" THEN [result |-> "UnboundLocalError", example |-> "unbound"]
    ELSE IF idx = num_batches
         THEN IF example = "bound"
              THEN [result |-> "returned", example |-> example]
              ELSE [result |-> "UnboundLocalError", example |-> example]
         ELSE RunFrom(s, rec_loss_type, num_batches, idx + 1,
                      ExampleAfter(s, rec_loss_type, idx, num_batches, example))

\* -------------------------------------------- train_mnist_vqdeconv_acn.py
\* a batch that steps the optimizer in every phase
OptStepsEveryPhase(phase, n) == n + 1

\* if phase == 'train': ... model_dict['opt'].step()
OptSteps(phase, n) == IF phase = "train" THEN n + 1 ELSE n

\* a guard that lets every phase write the table
WritesTableAlways(phase) == TRUE

\* a guard that lets no phase write the table
WritesTableNever(phase) == FALSE

\* run_acn: if phase == 'train'
WritesTable(phase) == (phase = "train")

\* an iteration that queries the prior before it writes the batch's codes
RunAcnBatchQueryFirst(phase, b, u) ==
    LET fit == IF WritesTable(phase)
               THEN FitKnn(UpdateCodes(codes, b, u))
               ELSE [codes |-> codes, knn |-> knnX]
    IN  /\ training' = SetModelMode(phase)
        /\ codes' = fit.codes
        /\ knnX' = fit.knn
        /\ batch_index' = b
        /\ u_q' = u
        /\ PriorCall(knnX, u)
        /\ q_mode' = phase
        /\ todo' = todo \ b
        /\ opt_steps' = OptSteps(phase, opt_steps)
        /\ run_local' = RunLocals(phase, b, run_local)

\* an iteration that writes the batch's codes and does not fit the index again
RunAcnBatchNoFit(phase, b, u) ==
    LET c1 == IF WritesTable(phase) THEN UpdateCodes(codes, b, u) ELSE codes
    IN  /\ training' = SetModelMode(phase)
        /\ codes' = c1
        /\ knnX' = knnX
        /\ batch_index' = b
        /\ u_q' = u
        /\ PriorCall(knnX, u)
        /\ q_mode' = phase
        /\ todo' = todo \ b
        /\ opt_steps' = OptSteps(phase, opt_steps)
        /\ run_local' = RunLocals(phase, b, run_local)

\* one iteration of run_acn's loop over the data loader
RunAcnBatch(phase, b, u) ==
    LET fit == IF WritesTable(phase)
               THEN FitKnn(UpdateCodes(codes, b, u))
               ELSE [codes |-> codes, knn |-> knnX]
    IN  /\ training' = SetModelMode(phase)
        /\ codes' = fit.codes
        /\ knnX' = fit.knn
        /\ batch_index' = b
        /\ u_q' = u
        /\ PriorCall(fit.knn, u)
        /\ q_mode' = phase
        /\ todo' = todo \ b
        /\ opt_steps' = OptSteps(phase, opt_steps)
        /\ run_local' = RunLocals(phase, b, run_local)

\* the history of the training batches: the code computed last for each example
Record(phase, b, u) ==
    latest' = IF phase = "train"
              THEN [i \in DOMAIN latest |-> IF i \in b THEN u[i] ELSE latest[i]]
              ELSE latest

\* a loop condition that waits for the count to hit the target
LoopCondUntilEqual(tc, target) == tc # target

\* train_acn: train_cnt < info['num_examples_to_train']
LoopCond(tc, target) == tc < target

\* train_acn: while train_cnt < info['num_examples_to_train']
LoopTest(tc) ==
    IF LoopCond(tc, NumExamplesToTrain)
    THEN pc' = "train" /\ todo' = TrainIdx /\ run_local' = EnterRun(tc)
    ELSE pc' = "done" /\ todo' = {} /\ run_local' = NoLocals

\* a condition that makes a checkpoint after every epoch
SaveNowEveryEpoch(s, ec) == TRUE

\* train_acn: the checkpoint condition after an epoch
SaveNow(s, ec) ==
    IF s = "pcnn"
    THEN ec % SaveEveryEpochs = 0 \/ ec = 1
    ELSE ec % SaveEveryEpochs = 0

RECURSIVE DigitsOf(_)
DigitsOf(n) == IF n < 10 THEN <<n>> ELSE Append(DigitsOf(n \div 10), n % 10)

RECURSIVE ZeroPad(_, _)
ZeroPad(d, w) == IF Len(d) >= w THEN d ELSE ZeroPad(<<0>> \o d, w)

\* a format without padding, "%d"
PadNameUnpadded(d) == d

\* "%010d" applied to a number with decimal digits d
PadName(d) == ZeroPad(d, NameWidth)

\* "%s_%010dex.pt" % (base_filename, train_cnt): the digits that tell the
\* checkpoint files of one experiment apart
CkptName(tc) == PadName(DigitsOf(tc))

\* the order of sorted() on the file names
RECURSIVE LexLess(_, _)
LexLess(a, b) ==
    IF a = <<>> THEN b # <<>>
    ELSE IF b = <<>> THEN FALSE
    ELSE IF Head(a) # Head(b) THEN Head(a) < Head(b)
    ELSE LexLess(Tail(a), Tail(b))

\* __main__: sorted(glob(os.path.join(base_filepath, '*.pt')))[-1]
LastModel(F) == CHOOSE f \in F : \A g \in F \ {f} : LexLess(g.name, f.name)

\* an empty dict
EmptyDict == [key \in {} |-> <<>>]

\* utils.create_new_info_dict: the counters and the loss history of a run
\* started from scratch
CreateNewInfoDict ==
    [train_cnts |-> <<>>, epoch_cnt |-> 0,
     train_losses |-> EmptyDict, valid_losses |-> EmptyDict]

\* the keys of the loss_avg a pass returns: run_acn's literal with
\* rec_loss_type 'dml', account_losses' copy of loss_dict without 'running'
LossKeys(s) ==
    IF s = "pcnn" THEN {"kl", "pcnn_dml", "loss"}
                  ELSE {"kl", "dml", "loss", "loss2", "loss3"}

\* if loss_key not in info[lphase].keys(): info[lphase][loss_key] = []
WithKeys(d, keys) ==
    [key \in DOMAIN d \cup keys |-> IF key \in DOMAIN d THEN d[key] ELSE <<>>]

\* info[lphase][loss_key].append(loss_avg[loss_key]) for every loss_key
AppendLosses(d, keys, entry) ==
    [key \in DOMAIN d |-> IF key \in keys THEN Append(d[key], entry) ELSE d[key]]

\* a checkpoint block that records the validation losses only
CheckpointInfoValidOnly(i, s, tc, ec) ==
    [train_cnts   |-> Append(i.train_cnts, tc),
     epoch_cnt    |-> ec,
     train_losses |-> WithKeys(i.train_losses, LossKeys(s)),
     valid_losses |-> AppendLosses(WithKeys(i.valid_losses, LossKeys(s)), LossKeys(s),
                                   <<"valid", ec>>)]

\* train_acn's checkpoint block, on info: the losses of the epoch's two passes
\* are appended under every loss key, then the train count, then epoch_cnt is
\* set
CheckpointInfo(i, s, tc, ec) ==
    [train_cnts   |-> Append(i.train_cnts, tc),
     epoch_cnt    |-> ec,
     train_losses |-> AppendLosses(WithKeys(i.train_losses, LossKeys(s)), LossKeys(s),
                                   <<"train", ec>>),
     valid_losses |-> AppendLosses(WithKeys(i.valid_losses, LossKeys(s)), LossKeys(s),
                                   <<"valid", ec>>)]

\* utils.save_checkpoint(state_dict, filename=ckpt_filepath)
SaveCheckpoint(name, i) ==
    /\ files' = {f \in files : f.name # name} \cup {[name |-> name, info |-> i]}
    /\ written' = Append(written, name)

\* a resume that starts counting from zero again
ResumeTrainCntZero(tcs) == 0

\* create_models: train_cnt = info['train_cnts'][-1]
ResumeTrainCnt(tcs) == tcs[Len(tcs)]

\* a resume that takes the epoch count of a fresh run
ResumeEpochCntZero(i) == 0

\* create_models: epoch_cnt = info['epoch_cnt']
ResumeEpochCnt(i) == i.epoch_cnt

RunAcnTrain ==
    /\ script = "vq" /\ pc = "train" /\ todo # {}
    /\ \E b \in Batches(todo) : \E u \in [b -> Codes] :
          RunAcnBatch("train", b, u) /\ Record("train", b, u)
    /\ UNCHANGED <<script, args, pc, epoch_cnt, train_cnt, k, tie, memo>>
    /\ UNCHANGED <<seed_codes, log_written, info, files, written, log_ones, callVars>>

RunAcnValid ==
    /\ script = "vq" /\ pc = "valid" /\ todo # {}
    /\ \E b \in Batches(todo) : \E u \in [b -> Codes] :
          RunAcnBatch("valid", b, u) /\ Record("valid", b, u)
    /\ UNCHANGED <<script, args, pc, epoch_cnt, train_cnt, k, tie, memo>>
    /\ UNCHANGED <<seed_codes, log_written, info, files, written, log_ones, callVars>>

\* train_acn after the training pass: count the epoch, then validate or loop
EndTrainPass ==
    /\ pc = "train" /\ todo = {}
    /\ IF Returns(run_local)
       THEN /\ epoch_cnt' = epoch_cnt + 1
            /\ train_cnt' = train_cnt + SizeTrainingSet
            /\ IF SaveNow(script, epoch_cnt')
               THEN pc' = "valid" /\ todo' = ValidIdx /\ run_local' = EnterRun(train_cnt')
               ELSE LoopTest(train_cnt')
       ELSE /\ pc' = "error" /\ todo' = {} /\ run_local' = NoLocals
            /\ UNCHANGED <<epoch_cnt, train_cnt>>
    /\ log_ones' = 0
    /\ UNCHANGED <<script, args, codes, knnX, k, training, tie, batch_index, u_q,
                   nbr, chosen, prev_codes, q_codes, q_knn, q_mode, latest, memo>>
    /\ UNCHANGED <<rdn, seed_codes, opt_steps, log_written, info, files, written,
                   callVars>>

\* train_acn after the validation pass: write the checkpoint, then loop
Checkpoint ==
    /\ pc = "valid" /\ todo = {}
    /\ IF Returns(run_local)
       THEN /\ info' = CheckpointInfo(info, script, train_cnt, epoch_cnt)
            /\ SaveCheckpoint(CkptName(train_cnt), info')
            /\ LoopTest(train_cnt)
       ELSE /\ pc' = "error" /\ todo' = {} /\ run_local' = NoLocals
            /\ UNCHANGED <<info, files, written>>
    /\ log_ones' = 0
    /\ UNCHANGED <<script, args, epoch_cnt, train_cnt, codes, knnX, k, training, tie,
                   batch_index, u_q, nbr, chosen, prev_codes, q_codes, q_knn, q_mode, latest, memo>>
    /\ UNCHANGED <<rdn, seed_codes, opt_steps, log_written, callVars>>

\* ----------------------------------------------- train_mnist_pcnn_tacn.py
\* forward_pass(model_dict, data, label, batch_index, phase, info)
ForwardPass(phase, b, u) ==
    LET fit == IF phase = "train"
               THEN UpdateCodebook(codes, b, u)
               ELSE [codes |-> codes, knn |-> knnX]
    IN  /\ training' = SetModelMode(phase)
        /\ codes' = fit.codes
        /\ knnX' = fit.knn
        /\ batch_index' = b
        /\ u_q' = u
        /\ PriorCall(fit.knn, u)
        /\ q_mode' = phase

\* a placeholder that is allocated on the first batch only
LogOnesRowsFirstOnly(first, bs, rows) == IF first THEN bs ELSE rows

\* run: if idx == 0: log_ones = zeros(bs, ..); if bs != log_ones.shape[0]:
\* log_ones = zeros(bs, ..)
LogOnesRows(first, bs, rows) ==
    LET r0 == IF first THEN bs ELSE rows
    IN  IF bs # r0 THEN bs ELSE r0

\* one iteration of run's loop over the data loader
RunBatch(phase, b, u) ==
    /\ ForwardPass(phase, b, u)
    /\ log_ones' = LogOnesRows(todo = LoaderIdx(phase), Cardinality(b), log_ones)
    /\ opt_steps' = OptSteps(phase, opt_steps)
    /\ run_local' = RunLocals(phase, b, run_local)
    /\ todo' = todo \ b

\* one iteration of run's loop over the training loader
RunTrain ==
    /\ script = "pcnn" /\ pc = "train" /\ todo # {}
    /\ \E b \in Batches(todo) : \E u \in [b -> Codes] :
          RunBatch("train", b, u) /\ Record("train", b, u)
    /\ UNCHANGED <<script, args, pc, epoch_cnt, train_cnt, k, tie, memo>>
    /\ UNCHANGED <<seed_codes, log_written, info, files, written, callVars>>

\* one iteration of run's loop over the validation loader
RunValid ==
    /\ script = "pcnn" /\ pc = "valid" /\ todo # {}
    /\ \E b \in Batches(todo) : \E u \in [b -> Codes] :
          RunBatch("valid", b, u) /\ Record("valid", b, u)
    /\ UNCHANGED <<script, args, pc, epoch_cnt, train_cnt, k, tie, memo>>
    /\ UNCHANGED <<seed_codes, log_written, info, files, written, callVars>>

\* the flags that select an alternate action: --sample, --tsne, --pca in the
\* pixel-CNN script, --tsne, --walk in the VQ script
AlternateFlags ==
    IF script = "pcnn" THEN {args.sample, args.tsne, args.pca}
                       ELSE {args.tsne, args.walk}

\* a dispatch that trains whatever was asked for
AfterSampleAlwaysTrain == "train"

\* __main__: only train if we weren't asked to do anything else
AfterSample == IF TRUE \in AlternateFlags THEN "done" ELSE "train"

\* __main__: if args.sample (pixel-CNN script), if args.walk (VQ script)
AfterPlot ==
    IF script = "pcnn"
    THEN IF args.sample THEN "sample_train" ELSE AfterSample
    ELSE IF args.walk THEN "walk" ELSE AfterSample

\* __main__: if args.tsne or args.pca (pixel-CNN script), if args.tsne (VQ script)
AfterCreate ==
    IF script = "pcnn"
    THEN IF args.tsne \/ args.pca THEN "plot_valid" ELSE AfterPlot
    ELSE IF args.tsne THEN "tsne" ELSE AfterPlot

\* __main__: the next position; training starts with write_log_files(info)
\* and train_acn's loop test
Goto(p) ==
    IF p = "train"
    THEN log_written' = TRUE /\ LoopTest(train_cnt)
    ELSE log_written' = log_written /\ pc' = p /\ todo' = {} /\ run_local' = run_local

\* __main__ after create_models / create_conv_acn_pcnn_models
Main ==
    /\ pc = "main"
    /\ Goto(AfterCreate)
    /\ UNCHANGED <<script, args, epoch_cnt, train_cnt, codes, knnX, k, training, tie,
                   batch_index, u_q, nbr, chosen, prev_codes, q_codes, q_knn, q_mode,
                   latest, memo>>
    /\ UNCHANGED <<rdn, seed_codes, opt_steps, info, files, written, log_ones, callVars>>

\* call_plot: the first batch of the 'valid' loader
CallPlotValid ==
    /\ pc = "plot_valid"
    /\ \E b \in Batches(ValidIdx) : \E u \in [b -> Codes] : ForwardPass("valid", b, u)
    /\ pc' = "plot_train" /\ todo' = {}
    /\ UNCHANGED <<script, args, epoch_cnt, train_cnt, k, tie, latest, memo>>
    /\ UNCHANGED <<seed_codes, runVars, callVars>>

\* call_plot: the first batch of the 'train' loader
CallPlotTrain ==
    /\ pc = "plot_train"
    /\ \E b \in Batches(TrainIdx) : \E u \in [b -> Codes] : ForwardPass("train", b, u)
    /\ Goto(AfterPlot)
    /\ UNCHANGED <<script, args, epoch_cnt, train_cnt, k, tie, latest, memo>>
    /\ UNCHANGED <<seed_codes, opt_steps, info, files, written, log_ones, callVars>>

\* sample: the first examples of the first batch of the 'train' loader
SampleTrain ==
    /\ pc = "sample_train"
    /\ \E b \in Batches(TrainIdx) : \E s \in FirstExamples(b) : \E u \in [s -> Codes] :
          ForwardPass("train", s, u)
    /\ pc' = "sample_valid" /\ todo' = {}
    /\ UNCHANGED <<script, args, epoch_cnt, train_cnt, k, tie, latest, memo>>
    /\ UNCHANGED <<seed_codes, runVars, callVars>>

\* sample: the first examples of the first batch of the 'valid' loader
SampleValid ==
    /\ pc = "sample_valid"
    /\ \E b \in Batches(ValidIdx) : \E s \in FirstExamples(b) : \E u \in [s -> Codes] :
          ForwardPass("valid", s, u)
    /\ Goto(AfterSample)
    /\ UNCHANGED <<script, args, epoch_cnt, train_cnt, k, tie, latest, memo>>
    /\ UNCHANGED <<seed_codes, opt_steps, info, files, written, log_ones, callVars>>

\* call_tsne_plot in the VQ script: after set_model_mode, the first batch is
\* handed to model_dict['conv_model'], which is no key of this script's
\* model_dict, and the process ends with a KeyError
CallTsnePlot ==
    /\ script = "vq" /\ pc = "tsne"
    /\ training' = SetModelMode("valid")
    /\ pc' = "error" /\ todo' = {}
    /\ UNCHANGED <<script, args, epoch_cnt, train_cnt, codes, knnX, k, tie,
                   batch_index, u_q, nbr, chosen, prev_codes, q_codes, q_knn, q_mode,
                   latest, memo>>
    /\ UNCHANGED <<rdn, seed_codes, runVars, callVars>>

\* latent_walk in the VQ script: after set_model_mode, the first batch is
\* handed to model_dict['encoder_model'], which is no key either
LatentWalk ==
    /\ script = "vq" /\ pc = "walk"
    /\ training' = SetModelMode("valid")
    /\ pc' = "error" /\ todo' = {}
    /\ UNCHANGED <<script, args, epoch_cnt, train_cnt, codes, knnX, k, tie,
                   batch_index, u_q, nbr, chosen, prev_codes, q_codes, q_knn, q_mode,
                   latest, memo>>
    /\ UNCHANGED <<rdn, seed_codes, runVars, callVars>>

\* ------------------------------------------------------ specification
NoFlags == [tsne |-> FALSE, pca |-> FALSE, sample |-> FALSE, walk |-> FALSE]

\* the command lines of a script: each script knows its own flags only
Flags(s) ==
    IF s = "pcnn"
    THEN [tsne : BOOLEAN, pca : BOOLEAN, sample : BOOLEAN, walk : {FALSE}]
    ELSE [tsne : BOOLEAN, pca : {FALSE}, sample : {FALSE}, walk : BOOLEAN]

\* orders among equidistant rows: lowest index first, highest index first
TieOrders(rows) == {[i \in 1..rows |-> i], [i \in 1..rows |-> rows + 1 - i]}

\* the tables rdn.standard_normal can have yielded: one whose rows coincide,
\* one whose neighbouring rows differ
SeedTables(rows) ==
    LET a == CHOOSE c \in Codes : TRUE
        b == CHOOSE c \in Codes : c # a
    IN  {[i \in 1..rows |-> a], [i \in 1..rows |-> IF i % 2 = 1 THEN b ELSE a]}

\* PriorNetwork.__init__: a random table of size_training_set rows, fitted
InitPrior(rows, kk, orders) ==
    /\ codes \in SeedTables(rows)
    /\ seed_codes = codes
    /\ knnX = FitKnn(codes).knn
    /\ k = kk
    /\ training = TRUE
    /\ rdn = "constructed"
    /\ tie \in orders

NoQuery ==
    /\ batch_index = {} /\ u_q = <<>> /\ nbr = <<>> /\ chosen = <<>>
    /\ prev_codes = <<>> /\ q_codes = <<>> /\ q_knn = <<>> /\ q_mode = "none"
    /\ memo = [set |-> FALSE]

\* no training process: nothing logged, stepped or saved
NoRun ==
    /\ opt_steps = 0 /\ log_written = FALSE /\ info = CreateNewInfoDict
    /\ files = {} /\ written = <<>> /\ log_ones = 0
    /\ run_local = NoLocals

NoCall == inp = <<>> /\ out = <<>>

Init ==
    /\ script \in {"vq", "pcnn"}
    /\ args \in Flags(script)
    /\ pc = "main" /\ todo = {}
    /\ epoch_cnt = 0 /\ train_cnt = 0
    /\ InitPrior(SizeTrainingSet, NumK, TieOrders(SizeTrainingSet))
    /\ latest = codes
    /\ NoQuery
    /\ NoRun
    /\ NoCall

\* a later invocation with --load_last_model on the experiment's directory,
\* after the process before it has ended or was killed: create_models loads
\* the counters of the newest checkpoint and constructs the models anew
Restart ==
    /\ pc \in {"train", "valid", "done"}
    /\ files # {}
    /\ info' = LastModel(files).info
    /\ train_cnt' = ResumeTrainCnt(info'.train_cnts)
    /\ epoch_cnt' = ResumeEpochCnt(info')
    /\ codes' = seed_codes
    /\ knnX' = FitKnn(seed_codes).knn
    /\ training' = TRUE
    /\ rdn' = "constructed"
    /\ latest' = seed_codes
    /\ batch_index' = {} /\ u_q' = <<>> /\ nbr' = <<>> /\ chosen' = <<>>
    /\ prev_codes' = <<>> /\ q_codes' = <<>> /\ q_knn' = <<>> /\ q_mode' = "none"
    /\ memo' = [set |-> FALSE]
    /\ pc' = "main" /\ todo' = {}
    /\ opt_steps' = 0 /\ log_written' = FALSE /\ log_ones' = 0
    /\ run_local' = NoLocals
    /\ UNCHANGED <<script, args, k, tie, seed_codes, files, written, callVars>>

Next ==
    \/ Main
    \/ RunAcnTrain
    \/ RunAcnValid
    \/ RunTrain
    \/ RunValid
    \/ EndTrainPass
    \/ Checkpoint
    \/ CallPlotValid
    \/ CallPlotTrain
    \/ SampleTrain
    \/ SampleValid
    \/ CallTsnePlot
    \/ LatentWalk
    \/ Restart

Spec == Init /\ [][Next]_vars

\* ------------------------------------------- the prior queried on its own
\* the tables of the harness: the scenario's, and every table of at most
\* MaxRows rows over HarnessCodes
HarnessTables ==
    {ScenarioTable} \cup UNION {[1..n -> HarnessCodes] : n \in 1..MaxRows}

\* the query batches of the harness: one example, or two (the examples of a
\* batch are looked up one by one)
QueryBatches == UNION {[1..n -> HarnessQueries] : n \in {1, 2}}

InitKnn ==
    /\ script = "harness" /\ args = NoFlags
    /\ pc = "harness" /\ todo = {}
    /\ epoch_cnt = 0 /\ train_cnt = 0
    /\ codes \in HarnessTables
    /\ knnX = FitKnn(codes).knn
    /\ k \in 1..Len(codes)
    /\ seed_codes = codes
    /\ training = TRUE
    /\ rdn = "constructed"
    /\ tie \in TieOrders(Len(codes))
    /\ latest = codes
    /\ NoQuery
    /\ NoRun
    /\ NoCall

\* prior_model.eval(); batch_pick_close_neighbor(q)
HarnessEval ==
    /\ pc = "harness"
    /\ \E q \in QueryBatches :
          /\ training' = FALSE
          /\ PriorForward(codes, knnX, q, training')
          /\ batch_index' = DOMAIN q
          /\ u_q' = q
    /\ q_mode' = "valid"
    /\ memo' = IF q_mode = "valid"
               THEN [set |-> TRUE, q |-> q_codes[1], row |-> prev_codes[1]]
               ELSE memo
    /\ UNCHANGED <<script, args, pc, todo, epoch_cnt, train_cnt, codes, knnX, k, tie,
                   latest>>
    /\ UNCHANGED <<seed_codes, runVars, callVars>>

\* prior_model.train(); batch_pick_close_neighbor(q)
HarnessTrain ==
    /\ pc = "harness"
    /\ \E q \in QueryBatches :
          /\ training' = TRUE
          /\ PriorForward(codes, knnX, q, training')
          /\ batch_index' = DOMAIN q
          /\ u_q' = q
    /\ q_mode' = "train"
    /\ memo' = [set |-> FALSE]
    /\ UNCHANGED <<script, args, pc, todo, epoch_cnt, train_cnt, codes, knnX, k, tie,
                   latest>>
    /\ UNCHANGED <<seed_codes, runVars, callVars>>

NextKnn == HarnessEval \/ HarnessTrain

SpecKnn == InitKnn /\ [][NextKnn]_vars

\* ---------------------------------------- components called on their own
\* vectors of MaxDim components at most
Vectors(S) == UNION {[1..n -> S] : n \in 1..MaxDim}

RECURSIVE Pow2(_)
Pow2(n) == IF n = 0 THEN 1 ELSE 2 * Pow2(n - 1)

\* std = torch.exp(0.5*logvar); a log-variance is written as the number n of
\* times it holds 2 ln 2, so that exp(0.5 * logvar) is the integer 2^n
Std(logvar) == [i \in DOMAIN logvar |-> Pow2(logvar[i])]

\* a reparameterization that samples in either mode
ReparameterizeAlwaysSample(isTraining, mu, logvar, eps) ==
    [i \in DOMAIN mu |-> eps[i] * Std(logvar)[i] + mu[i]]

\* reparameterize(self, mu, logvar), the same text in ConvEncoder,
\* ConvEncodeDecodeLarge, ConvEncodeDecode, ConvEncodeDecodeLargeVQVAE and
\* ACNVQVAEres; eps is the draw of torch.randn_like(std)
Reparameterize(isTraining, mu, logvar, eps) ==
    IF isTraining
    THEN [i \in DOMAIN mu |-> eps[i] * Std(logvar)[i] + mu[i]]
    ELSE mu

\* a tensor left in the layout it came in
NoPermute(x) == x

\* permute(0, 2, 3, 1): (B, D, H, W) to (B, H, W, D)
Permute(x) == [l \in DOMAIN x[1] |-> [d \in DOMAIN x |-> x[d][l]]]

\* permute(0, 3, 1, 2): (B, H, W, D) to (B, D, H, W)
PermuteBack(x) == [d \in DOMAIN x[1] |-> [l \in DOMAIN x |-> x[l][d]]]

\* functions.vq(inputs, codebook): per location the 0-based index of the
\* codebook entry at minimal squared distance; among equidistant entries the
\* minimum operation's fixed order t decides
Vq(inputs, codebook, t) ==
    [l \in DOMAIN inputs |->
        (CHOOSE i \in DOMAIN codebook : \A j \in DOMAIN codebook \ {i} :
            Before(codebook, inputs[l], t, i, j)) - 1]

\* functions.vq_st(inputs, codebook): the entries selected, and their indices
VqSt(inputs, codebook, t) ==
    LET indices == Vq(inputs, codebook, t)
    IN  [z_q_x_ |-> [l \in DOMAIN inputs |-> codebook[indices[l] + 1]],
         indices |-> indices]

\* nn.Embedding applied to indices, torch.index_select(weight, dim=0, index)
IndexSelect(weight, indices) == [l \in DOMAIN indices |-> weight[indices[l] + 1]]

\* VQEmbedding.forward(z_e_x)
VqForward(z_e_x, weight, t) == Vq(Permute(z_e_x), weight, t)

\* a straight-through path that returns the codebook copy as it was selected
StraightThroughFlatBar(z_e_x, weight, t) ==
    LET st == VqSt(Permute(z_e_x), weight, t)
    IN  [z_q_x     |-> PermuteBack(st.z_q_x_),
         z_q_x_bar |-> IndexSelect(weight, st.indices)]

\* VQEmbedding.straight_through(z_e_x)
StraightThrough(z_e_x, weight, t) ==
    LET st == VqSt(Permute(z_e_x), weight, t)
    IN  [z_q_x     |-> PermuteBack(st.z_q_x_),
         z_q_x_bar |-> PermuteBack(IndexSelect(weight, st.indices))]

\* ConvEncodeDecodeLargeVQVAE.decode(latents), up to the decoder
Decode(weight, latents) == PermuteBack(IndexSelect(weight, latents))

RECURSIVE SumOver(_, _)
SumOver(f, S) ==
    IF S = {} THEN 0
    ELSE LET x == CHOOSE y \in S : TRUE IN f[x] + SumOver(f, S \ {x})

\* the gradient a gather of rows sends to the matrix gathered from: each row
\* collects the gradients of the places that selected it
ScatterAdd(indices, g, K) ==
    [r \in 1..K |-> [d \in DOMAIN g[1] |->
        SumOver([l \in DOMAIN g |-> g[l][d]], {l \in DOMAIN g : indices[l] + 1 = r})]]

\* the backward pass of vq_st: the gradient of the output is handed to the
\* inputs as it is, and gathered into the rows of the codebook argument
VqStBackward(indices, g, K) == [inputs |-> g, codebook |-> ScatterAdd(indices, g, K)]

\* what reaches embedding.weight through the codebook argument of vq_st
ThroughCodebook(detached, g) == IF detached THEN [r \in DOMAIN g |-> Const(0)] ELSE g

\* a straight-through path that hands vq_st the codebook itself
StraightThroughBackwardAttached(z_e_x, weight, t, g_st, g_bar) ==
    LET st == VqSt(Permute(z_e_x), weight, t)
        K  == Len(weight)
        b  == VqStBackward(st.indices, Permute(g_st), K)
    IN  [z_e_x     |-> PermuteBack(b.inputs),
         weight_st |-> ThroughCodebook(FALSE, b.codebook),
         weight    |-> ScatterAdd(st.indices, Permute(g_bar), K)]

\* the backward pass through straight_through, for gradients g_st of z_q_x
\* and g_bar of z_q_x_bar: vq_st was handed embedding.weight.detach(), the
\* second tensor was gathered from embedding.weight
StraightThroughBackward(z_e_x, weight, t, g_st, g_bar) ==
    LET st == VqSt(Permute(z_e_x), weight, t)
        K  == Len(weight)
        b  == VqStBackward(st.indices, Permute(g_st), K)
    IN  [z_e_x     |-> PermuteBack(b.inputs),
         weight_st |-> ThroughCodebook(TRUE, b.codebook),
         weight    |-> ScatterAdd(st.indices, Permute(g_bar), K)]

\* nn.Linear: x W^T + b, for one row x
Linear(layer, x) ==
    [j \in DOMAIN layer.w |->
        SumOver([i \in DOMAIN x |-> layer.w[j][i] * x[i]], DOMAIN x) + layer.b[j]]

Relu(v) == [j \in DOMAIN v |-> IF v[j] > 0 THEN v[j] ELSE 0]

\* PriorNetwork.encode(prev_code), row by row of the batch
Encode(params, prev_code) ==
    [e \in DOMAIN prev_code |->
        LET h1 == Relu(Linear(params.fc1, prev_code[e]))
        IN  [mu |-> Linear(params.fc2_u, h1), logstd |-> Linear(params.fc2_s, h1)]]

\* a call that goes through forward: the argument is taken as the query, and
\* a neighbour picked for it is what gets encoded
EncodeThroughForward(params, prev_code) ==
    /\ PriorForward(codes, knnX, prev_code, training)
    /\ out' = Encode(params, prev_codes')

\* prior_model.encode(prev_code): the layers are applied, nothing is stored
EncodeCall(params, prev_code) ==
    /\ out' = Encode(params, prev_code)
    /\ UNCHANGED <<rdn, q_codes, nbr, chosen, prev_codes, q_knn>>

\* a merge in which the checkpoint wins for every key it has
MergeInfoCheckpointWins(cmd, dinfo) ==
    LET merged == [key \in DOMAIN cmd \cup DOMAIN dinfo |->
                      IF key \in DOMAIN dinfo THEN dinfo[key] ELSE cmd[key]]
    IN  [merged EXCEPT !["args"] = Append(@, cmd["args"])]

\* create_models with a checkpoint: for key in dinfo.keys(): if key not in
\* preserve_args or key not in pkeys: info[key] = dinfo[key]; and then
\* info['args'].append(largs)
MergeInfo(cmd, dinfo) ==
    LET merged == [key \in DOMAIN cmd \cup DOMAIN dinfo |->
                      IF key \in DOMAIN dinfo
                         /\ (key \notin PreserveArgs \/ key \notin DOMAIN cmd)
                      THEN dinfo[key] ELSE cmd[key]]
    IN  [merged EXCEPT !["args"] = Append(@, cmd["args"])]

\* side of the output of nn.Conv2d for an input of side n
ConvOut(n, kernel, stride, padding) == (n + 2 * padding - kernel) \div stride + 1

\* the number of values the encoder's output has when it is flattened
FlattenSize(cls, code_len, num_z) ==
    CASE cls = "ConvEncodeDecode" ->
            LET side == ConvOut(ConvOut(ConvOut(ImageSide, 4, 2, 1), 4, 2, 1), 1, 1, 0)
            IN  code_len * 2 * side * side
      [] cls = "ConvEncodeDecodeLargeVQVAE" ->
            LET side == ConvOut(ConvOut(ConvOut(ConvOut(ImageSide, 4, 2, 1), 4, 2, 1),
                                        2, 2, 1), 1, 1, 0)
            IN  num_z * side * side
      [] cls = "ACNVQVAEres" ->
            LET side == ConvOut(ConvOut(ConvOut(ImageSide, 4, 2, 1), 4, 2, 1), 1, 1, 0)
            IN  16 * side * side

\* np.sqrt(n / d) == int(np.sqrt(n / d)), and the integer if so
IsSquareTimes(n, d) == \E r \in 0..n : r * r * d = n
RootOf(n, d) == CHOOSE r \in 0..n : r * r * d = n

\* __init__: the assertion on self.eo; ACNVQVAEres sets self.eo = 7 and
\* asserts nothing
Constructs(cls, code_len, encoder_output_size) ==
    CASE cls = "ConvEncodeDecode" -> IsSquareTimes(encoder_output_size, 2 * code_len)
      [] cls = "ConvEncodeDecodeLargeVQVAE" -> IsSquareTimes(encoder_output_size, code_len)
      [] cls = "ACNVQVAEres" -> TRUE

\* decode / vq_encode: the output of fc3, of encoder_output_size values per
\* example, is viewed in the shape the class gives
ReshapeFits(cls, code_len, encoder_output_size) ==
    CASE cls = "ConvEncodeDecode" ->
            LET eo == RootOf(encoder_output_size, 2 * code_len)
            IN  code_len * 2 * eo * eo = encoder_output_size
      [] cls = "ConvEncodeDecodeLargeVQVAE" ->
            LET eo == RootOf(encoder_output_size, code_len)
            IN  code_len * eo * eo = encoder_output_size
      [] cls = "ACNVQVAEres" -> 16 * 7 * 7 = encoder_output_size

\* clip_grad_value_(parameters, clip_val), for the gradient g of one parameter
ClipGradValue(g, clip_val) ==
    IF g > clip_val THEN clip_val ELSE IF g < -clip_val THEN -clip_val ELSE g

\* the gradient of one parameter over a training batch of the script s, from
\* opt.zero_grad() to opt.step(); g_rec and g_kl are what the backward passes
\* of the reconstruction loss and of the KL term add to it.  The pixel-CNN
\* script clips, then runs loss.backward(); the VQ script runs
\* rec_loss.backward(), clips, then runs the backward passes of loss = kl +
\* rec_loss and of the VQ terms (which add nothing to a parameter outside the
\* encoder and the codebook)
TrainBatchGrad(s, g_rec, g_kl) ==
    LET zeroed   == 0
        before   == IF s = "vq" THEN zeroed + g_rec ELSE zeroed
        clipped  == ClipGradValue(before, ClipVal)
        stepped  == clipped + (g_kl + g_rec)
    IN  [clipped |-> clipped, stepped |-> stepped]

\* PriorNetwork(size_training_set, code_length, k): the three linear layers
\* with their initial parameters, and the table drawn from
\* RandomState(random_seed), fitted
NewPriorNetwork(params, table) ==
    [fc1 |-> params.fc1, fc2_u |-> params.fc2_u, fc2_s |-> params.fc2_s,
     codes |-> FitKnn(table).codes, knn |-> FitKnn(table).knn]

\* a state_dict that holds the code table beside the parameters
StateDictWithCodes(model) ==
    [key \in {"fc1", "fc2_u", "fc2_s", "codes", "knn"} |-> model[key]]

\* model.state_dict(): the parameters of the registered layers; codes, knn
\* and rdn are plain attributes
StateDict(model) == [key \in {"fc1", "fc2_u", "fc2_s"} |-> model[key]]

\* model.load_state_dict(state_dict)
LoadStateDict(model, state_dict) ==
    [key \in DOMAIN model |->
        IF key \in DOMAIN state_dict THEN state_dict[key] ELSE model[key]]

InitCall ==
    /\ script = "call" /\ args = NoFlags
    /\ pc = "call" /\ todo = {}
    /\ epoch_cnt = 0 /\ train_cnt = 0
    /\ InitPrior(NumK, NumK, TieOrders(MaxEntries))
    /\ latest = codes
    /\ NoQuery
    /\ NoRun
    /\ NoCall

\* model.train() or model.eval(), then reparameterize(mu, logvar)
CallReparameterize ==
    /\ pc = "call" /\ pc' = "returned"
    /\ \E mode \in BOOLEAN : \E mu \in Vectors(Means) :
       \E logvar \in [DOMAIN mu -> LogVars] : \E eps \in [DOMAIN mu -> Noise] :
          /\ training' = mode
          /\ inp' = [fn |-> "reparameterize", mu |-> mu, logvar |-> logvar]
          /\ out' = Reparameterize(mode, mu, logvar, eps)
    /\ UNCHANGED <<script, args, todo, epoch_cnt, train_cnt, codes, knnX, k, tie,
                   batch_index, u_q, nbr, chosen, prev_codes, q_codes, q_knn, q_mode,
                   latest, memo, rdn, seed_codes, runVars>>

\* VQEmbedding.forward(z_e_x)
CallVqForward ==
    /\ pc = "call" /\ pc' = "returned"
    /\ \E z \in Latents : \E E \in Codebooks :
          /\ inp' = [fn |-> "vq", z_e_x |-> z, weight |-> E]
          /\ out' = [latents |-> VqForward(z, E, tie)]
    /\ UNCHANGED <<script, args, todo, epoch_cnt, train_cnt, codes, knnX, k, tie,
                   batch_index, u_q, nbr, chosen, prev_codes, q_codes, q_knn, q_mode,
                   latest, memo, rdn, seed_codes, runVars, training>>

\* ConvEncodeDecodeLargeVQVAE.forward from vq_encode's lookup on, and decode
\* of the same latents
CallStraightThrough ==
    /\ pc = "call" /\ pc' = "returned"
    /\ \E z \in Latents : \E E \in Codebooks :
          LET latents == VqForward(z, E, tie)
              st      == StraightThrough(z, E, tie)
          IN  /\ inp' = [fn |-> "straight_through", z_e_x |-> z, weight |-> E]
              /\ out' = [latents   |-> latents,
                         z_q_x     |-> st.z_q_x,
                         z_q_x_bar |-> st.z_q_x_bar,
                         decoded   |-> Decode(E, latents)]
    /\ UNCHANGED <<script, args, todo, epoch_cnt, train_cnt, codes, knnX, k, tie,
                   batch_index, u_q, nbr, chosen, prev_codes, q_codes, q_knn, q_mode,
                   latest, memo, rdn, seed_codes, runVars, training>>

\* backward through the two tensors straight_through returned
CallBackward ==
    /\ pc = "call" /\ pc' = "returned"
    /\ \E z \in Latents : \E E \in Codebooks : \E g_st \in Grads : \E g_bar \in Grads :
          /\ inp' = [fn |-> "backward", z_e_x |-> z, weight |-> E,
                     g_st |-> g_st, g_bar |-> g_bar]
          /\ out' = [latents |-> VqForward(z, E, tie),
                     grad    |-> StraightThroughBackward(z, E, tie, g_st, g_bar)]
    /\ UNCHANGED <<script, args, todo, epoch_cnt, train_cnt, codes, knnX, k, tie,
                   batch_index, u_q, nbr, chosen, prev_codes, q_codes, q_knn, q_mode,
                   latest, memo, rdn, seed_codes, runVars, training>>

\* prior_model.encode(prev_code) on a batch of rows
CallEncode ==
    /\ pc = "call" /\ pc' = "returned"
    /\ \E params \in PriorParams : \E prev_code \in Vectors(Codes) :
          /\ inp' = [fn |-> "encode", params |-> params, prev_code |-> prev_code]
          /\ EncodeCall(params, prev_code)
    /\ UNCHANGED <<script, args, todo, epoch_cnt, train_cnt, codes, knnX, k, tie,
                   batch_index, u_q, q_mode, latest, memo, seed_codes, runVars,
                   training>>

\* the same call once more, with the same argument and parameters
CallEncodeAgain ==
    /\ pc = "returned" /\ inp.fn = "encode"
    /\ EncodeCall(inp.params, inp.prev_code)
    /\ UNCHANGED <<script, args, pc, todo, epoch_cnt, train_cnt, codes, knnX, k, tie,
                   batch_index, u_q, q_mode, latest, memo, seed_codes, runVars,
                   training, inp>>

\* create_models(info, model_loadpath) with a model_loadpath
CallCreateModels ==
    /\ pc = "call" /\ pc' = "returned"
    /\ \E cmd \in CmdInfos : \E dinfo \in CkptInfos :
          /\ inp' = [fn |-> "create_models", info |-> cmd, dinfo |-> dinfo]
          /\ out' = MergeInfo(cmd, dinfo)
    /\ UNCHANGED <<script, args, todo, epoch_cnt, train_cnt, codes, knnX, k, tie,
                   batch_index, u_q, nbr, chosen, prev_codes, q_codes, q_knn, q_mode,
                   latest, memo, rdn, seed_codes, runVars, training>>

\* cls(code_len, encoder_output_size=.., num_z=..), and, if the constructor
\* returns, a forward pass on an image batch
CallConstruct ==
    /\ pc = "call" /\ pc' = "returned"
    /\ \E cls \in Classes : \E code_len \in CodeLens : \E num_z \in NumZs :
       \E eos \in EncoderOutputSizes :
          LET made == Constructs(cls, code_len, eos)
          IN  /\ inp' = [fn |-> "construct", cls |-> cls, code_len |-> code_len,
                         num_z |-> num_z, encoder_output_size |-> eos]
              /\ out' = [constructed |-> made,
                         flatten     |-> FlattenSize(cls, code_len, num_z),
                         reshape_fits |-> made /\ ReshapeFits(cls, code_len, eos)]
    /\ UNCHANGED <<script, args, todo, epoch_cnt, train_cnt, codes, knnX, k, tie,
                   batch_index, u_q, nbr, chosen, prev_codes, q_codes, q_knn, q_mode,
                   latest, memo, rdn, seed_codes, runVars, training>>

\* one training batch of run / run_acn, followed for one parameter
CallTrainBatch ==
    /\ pc = "call" /\ pc' = "returned"
    /\ \E s \in {"vq", "pcnn"} : \E g_rec \in Gradients : \E g_kl \in Gradients :
          /\ inp' = [fn |-> "train_batch", script |-> s, g_rec |-> g_rec, g_kl |-> g_kl]
          /\ out' = TrainBatchGrad(s, g_rec, g_kl)
    /\ UNCHANGED <<script, args, todo, epoch_cnt, train_cnt, codes, knnX, k, tie,
                   batch_index, u_q, nbr, chosen, prev_codes, q_codes, q_knn, q_mode,
                   latest, memo, rdn, seed_codes, runVars, training>>

\* train_acn stores prior_model.state_dict() of a trained model, and
\* create_conv_acn_pcnn_models builds the prior anew, once without and once
\* with that checkpoint
CallResume ==
    /\ pc = "call" /\ pc' = "returned"
    /\ \E trained \in PriorParams : \E initial \in PriorParams \ {trained} :
       \E table \in [DOMAIN seed_codes -> Codes] :
          LET saved == [NewPriorNetwork(trained, seed_codes)
                           EXCEPT !.codes = FitKnn(table).codes,
                                  !.knn = FitKnn(table).knn]
              fresh == NewPriorNetwork(initial, seed_codes)
          IN  /\ inp' = [fn |-> "resume", saved |-> saved]
              /\ out' = [fresh  |-> fresh,
                         loaded |-> LoadStateDict(fresh, StateDict(saved))]
    /\ UNCHANGED <<script, args, todo, epoch_cnt, train_cnt, codes, knnX, k, tie,
                   batch_index, u_q, nbr, chosen, prev_codes, q_codes, q_knn, q_mode,
                   latest, memo, rdn, seed_codes, runVars, training>>

\* --load_last_model on a directory that holds the checkpoints of the given
\* train counts
CallLoadLast ==
    /\ pc = "call" /\ pc' = "returned"
    /\ \E counts \in SUBSET TrainCounts \ {{}} :
          LET dir == {[name |-> PadName(d), train_cnt |-> d] : d \in counts}
          IN  /\ inp' = [fn |-> "load_last", counts |-> counts]
              /\ out' = [model_loadpath |-> LastModel(dir)]
    /\ UNCHANGED <<script, args, todo, epoch_cnt, train_cnt, codes, knnX, k, tie,
                   batch_index, u_q, nbr, chosen, prev_codes, q_codes, q_knn, q_mode,
                   latest, memo, rdn, seed_codes, runVars, training>>

\* run / run_acn over a data loader of the given number of batches
CallRun ==
    /\ pc = "call" /\ pc' = "returned"
    /\ \E s \in {"vq", "pcnn"} : \E phase \in {"train", "valid"} :
       \E rec_loss_type \in RecLossTypes(s) : \E num_batches \in 1..MaxBatches :
          /\ inp' = [fn |-> "run", script |-> s, phase |-> phase,
                     rec_loss_type |-> rec_loss_type, num_batches |-> num_batches]
          /\ out' = RunFrom(s, rec_loss_type, num_batches, 0, "unbound")
    /\ UNCHANGED <<script, args, todo, epoch_cnt, train_cnt, codes, knnX, k, tie,
                   batch_index, u_q, nbr, chosen, prev_codes, q_codes, q_knn, q_mode,
                   latest, memo, rdn, seed_codes, runVars, training>>

NextCall ==
    \/ CallReparameterize
    \/ CallVqForward
    \/ CallStraightThrough
    \/ CallBackward
    \/ CallEncode
    \/ CallEncodeAgain
    \/ CallCreateModels
    \/ CallConstruct
    \/ CallTrainBatch
    \/ CallResume
    \/ CallLoadLast
    \/ CallRun

SpecCall == InitCall /\ [][NextCall]_vars

\* ------------------------------------------- train_acn called on its own
\* the counts train_acn is started with, the targets and the set sizes
StartCounts == 0..NumExamplesToTrain
StartEpochs == 0..1
Targets == 0..(NumExamplesToTrain + 1)
SetSizes == 1..SizeTrainingSet

InitLoop ==
    /\ script \in {"vq", "pcnn"} /\ args = NoFlags
    /\ pc = "loop" /\ todo = {}
    /\ \E start \in StartCounts : \E ec \in StartEpochs :
       \E target \in Targets : \E size \in SetSizes :
          /\ inp = [fn |-> "train_acn", train_cnt |-> start, epoch_cnt |-> ec,
                    num_examples_to_train |-> target, size_training_set |-> size]
          /\ train_cnt = start /\ epoch_cnt = ec
          /\ info = IF start = 0
                    THEN [CreateNewInfoDict EXCEPT !.epoch_cnt = ec]
                    ELSE CheckpointInfo(CreateNewInfoDict, script, start, ec)
    /\ InitPrior(SizeTrainingSet, NumK, TieOrders(SizeTrainingSet))
    /\ latest = codes
    /\ NoQuery
    /\ opt_steps = 0 /\ log_written = TRUE
    /\ files = {} /\ written = <<>> /\ log_ones = 0
    /\ run_local = NoLocals
    /\ out = [run_cnt |-> train_cnt]

\* one iteration of train_acn's while loop: the training pass (whose local
\* train_cnt ends at out.run_cnt and is not returned), the two increments,
\* and the checkpoint block if it is due
TrainAcnIteration ==
    /\ pc = "loop"
    /\ LoopCond(train_cnt, inp.num_examples_to_train)
    /\ out' = [run_cnt |-> train_cnt + inp.size_training_set]
    /\ epoch_cnt' = epoch_cnt + 1
    /\ train_cnt' = train_cnt + inp.size_training_set
    /\ IF SaveNow(script, epoch_cnt')
       THEN /\ info' = CheckpointInfo(info, script, train_cnt', epoch_cnt')
            /\ SaveCheckpoint(CkptName(train_cnt'), info')
       ELSE UNCHANGED <<info, files, written>>
    /\ UNCHANGED <<script, args, pc, todo, codes, knnX, k, training, tie, batch_index,
                   u_q, nbr, chosen, prev_codes, q_codes, q_knn, q_mode, latest, memo,
                   rdn, seed_codes, opt_steps, log_written, log_ones, run_local, inp>>

\* the loop condition fails and train_acn returns
TrainAcnReturn ==
    /\ pc = "loop"
    /\ ~LoopCond(train_cnt, inp.num_examples_to_train)
    /\ pc' = "done"
    /\ UNCHANGED <<modelVars, runVars, callVars>>

NextLoop == TrainAcnIteration \/ TrainAcnReturn

\* the interpreter runs the loop on: an iteration that can be taken is taken
SpecLoop == InitLoop /\ [][NextLoop]_vars /\ WF_vars(NextLoop)

\* ------------------------------------------------ sample: free sampling
\* the canvas of one example: canvas.shape[1] channels of canvas.shape[2] rows
\* and canvas.shape[3] columns
CanvasShape == <<InputChannels, CanvasSide, CanvasSide>>
Places == (1..CanvasShape[1]) \X (1..CanvasShape[2]) \X (1..CanvasShape[3])

\* canvas = torch.zeros_like(target)
ZerosLike(shape) ==
    [i \in 1..shape[1] |-> [j \in 1..shape[2] |-> [kk \in 1..shape[3] |-> 0]]]

\* the place the three nested range() loops visit after place p; <<>> when
\* the loops are exhausted
NextPlace(p, shape) ==
    IF p[3] < shape[3] THEN <<p[1], p[2], p[3] + 1>>
    ELSE IF p[2] < shape[2] THEN <<p[1], p[2] + 1, 1>>
    ELSE IF p[1] < shape[1] THEN <<p[1] + 1, 1, 1>>
    ELSE <<>>

\* an assignment that copies the whole sampled output into the canvas
WriteWholeOutput(canvas, p, output) == output

\* canvas[:,i,j,k] = output[:,i,j,k]
WritePixel(canvas, p, output) ==
    [canvas EXCEPT ![p[1]][p[2]][p[3]] = output[p[1]][p[2]][p[3]]]

\* the images a decoder pass and the sampling from its output can yield: at
\* place p any pixel value, at every other place a value fixed by p
Outputs(p) ==
    {[i \in 1..CanvasShape[1] |-> [j \in 1..CanvasShape[2] |-> [kk \in 1..CanvasShape[3] |->
         IF <<i, j, kk>> = p THEN v ELSE 1 + ((i + j + kk) % 2)]]] : v \in PixelValues}

InitSample ==
    /\ script = "pcnn" /\ args = [NoFlags EXCEPT !.sample = TRUE]
    /\ pc = "sample_loop" /\ todo = {}
    /\ epoch_cnt = 0 /\ train_cnt = 0
    /\ InitPrior(SizeTrainingSet, NumK, TieOrders(SizeTrainingSet))
    /\ latest = codes
    /\ NoQuery
    /\ NoRun
    /\ inp = [fn |-> "sample", place |-> <<1, 1, 1>>]
    /\ out = [canvas |-> ZerosLike(CanvasShape), seen |-> <<>>, passes |-> 0,
              writes |-> <<>>]

\* one iteration of the innermost loop of sample: a decoder pass on the
\* canvas, sampling from its output, and the assignment to the canvas
SamplePixel ==
    /\ pc = "sample_loop"
    /\ \E output \in Outputs(inp.place) :
          out' = [canvas |-> WritePixel(out.canvas, inp.place, output),
                  seen   |-> out.canvas,
                  passes |-> out.passes + 1,
                  writes |-> Append(out.writes, inp.place)]
    /\ LET next == NextPlace(inp.place, CanvasShape)
       IN  IF next = <<>>
           THEN pc' = "sample_done" /\ inp' = inp
           ELSE pc' = "sample_loop" /\ inp' = [inp EXCEPT !.place = next]
    /\ UNCHANGED <<modelVars, runVars>>

SpecSample == InitSample /\ [][SamplePixel]_vars

\* ---------------------------------------------------------- properties
Rows == 1..Len(codes)

\* a step of the loop over the training loader (a restart of the process
\* leaves the loop)
TrainingBatchStep == pc = "train" /\ todo # {} /\ pc' = "train"

ValidationStep ==
    \/ pc = "valid" /\ todo # {} /\ pc' = "valid"
    \/ pc \in {"plot_valid", "sample_valid"}

PostTrainingStep == pc \in {"plot_valid", "plot_train", "sample_train", "sample_valid"}

AlternateAction == TRUE \in AlternateFlags

CodeLength == Len(CHOOSE c \in Codes : TRUE)

\* C1: a training batch over indices batch_index leaves every row outside the
\* batch as it was and leaves in every row of the batch exactly the code
\* computed for that example in this batch.
CodeTableUpdateFrame ==
    [][TrainingBatchStep =>
          /\ batch_index' \subseteq DOMAIN codes
          /\ DOMAIN codes' = DOMAIN codes
          /\ \A i \in DOMAIN codes :
                codes'[i] = IF i \in batch_index' THEN u_q'[i] ELSE codes[i]]_vars

\* a training batch over a strict subset of the table has just been written,
\* and a row outside the batch differs from a row of the batch
WitnessUpdateFrame ==
    /\ pc = "train" /\ q_mode = "train"
    /\ batch_index # {} /\ batch_index # TrainIdx
    /\ \E i \in TrainIdx \ batch_index : \E j \in batch_index :
          codes[j] = u_q[j] /\ codes[i] # codes[j]

\* C2: the code table has exactly size_training_set rows of code_length
\* entries in every state, whatever batches, validation passes and epochs ran.
CodeTableSize ==
    /\ DOMAIN codes = 1..SizeTrainingSet
    /\ \A i \in DOMAIN codes : Len(codes[i]) = CodeLength

\* training has run all its epochs, with validation passes, and has ended
WitnessTableSize ==
    /\ pc = "done" /\ epoch_cnt = NumEpochs /\ q_mode = "valid"
    /\ Len(codes) = SizeTrainingSet

\* C3: a batch processed with phase 'valid' changes neither the code table nor
\* the fitted nearest-neighbour index.
ValidationKeepsTable ==
    [][ValidationStep => codes' = codes /\ knnX' = knnX]_vars

\* a validation batch of run_acn computed a code that differs from the table
\* row of the same index, and the row is still in place
WitnessValidation ==
    /\ script = "vq" /\ pc = "valid" /\ q_mode = "valid"
    /\ \E i \in batch_index : i \in DOMAIN codes /\ u_q[i] # codes[i]

\* C4: the post-training actions of the pixel-CNN script (call_plot, sample)
\* leave every row of the code table unchanged.
PostTrainingKeepsTable ==
    [][PostTrainingStep => codes' = codes]_vars

\* C5: at every prior query the points the index searches are the current
\* contents of the code table; the index is rebuilt after the batch's rows are
\* written and before the prior is queried.
IndexFresh ==
    /\ knnX = codes
    /\ q_mode # "none" => q_knn = codes

\* a prior query of the second epoch ran against a table that holds rows
\* written in this batch beside different rows written earlier
WitnessIndexFresh ==
    /\ pc = "train" /\ q_mode = "train" /\ epoch_cnt = 1
    /\ q_knn = codes
    /\ \E i \in batch_index : \E j \in TrainIdx \ batch_index : codes[i] # codes[j]

\* -------------------------------------------- properties of the prior query
\* row i of the table is among the kk rows nearest to q
AmongNearest(i, q, kk) ==
    Cardinality({j \in Rows : Dist2(codes[j], q) < Dist2(codes[i], q)}) < kk

\* row i of the table is at minimal distance from q
Nearest(i, q) == \A j \in Rows : Dist2(codes[i], q) <= Dist2(codes[j], q)

\* C6: for a table of N rows and 1 <= k <= N, a query obtains exactly k
\* neighbour indices per query code, all of them rows of the table, and the
\* first is at minimal (or tied-minimal) distance from the query.
KnnQueryShape ==
    (q_mode # "none" /\ k >= 1 /\ k <= Len(codes)) =>
        \A e \in DOMAIN q_codes :
            /\ Len(nbr[e]) = k
            /\ \A m \in 1..Len(nbr[e]) : nbr[e][m] \in Rows
            /\ Nearest(nbr[e][1], q_codes[e])

\* a query with k = N > 1 against a table whose rows are at different
\* distances from the query
WitnessKnnQuery ==
    /\ q_mode # "none" /\ k = Len(codes) /\ k > 1
    /\ \E e \in DOMAIN q_codes : \E i, j \in Rows :
          /\ Dist2(codes[i], q_codes[e]) < Dist2(codes[j], q_codes[e])
          /\ nbr[e][1] = i /\ nbr[e][k] = j

\* C7: in evaluation mode the prior returns, for every query, a table row at
\* minimal distance (the first listed neighbour), equal queries against the
\* same table return the same row, and the scenario's query returns the row
\* [0,0] or [1,1] (<<0, 0>> or <<2, 2>> in doubled coordinates).
EvalPicksClosest ==
    q_mode = "valid" =>
        /\ \A e \in DOMAIN q_codes :
              /\ chosen[e] = 0
              /\ \E i \in Rows : codes[i] = prev_codes[e] /\ Nearest(i, q_codes[e])
              /\ memo.set /\ memo.q = q_codes[e] => prev_codes[e] = memo.row
              /\ (codes = ScenarioTable /\ k = ScenarioK /\ q_codes[e] = ScenarioQuery)
                    => prev_codes[e] \in {<<0, 0>>, <<2, 2>>}
        /\ \A e, f \in DOMAIN q_codes :
              q_codes[e] = q_codes[f] => prev_codes[e] = prev_codes[f]

\* the scenario queried twice in evaluation mode, returning [1,1] both times
WitnessEvalScenario ==
    /\ codes = ScenarioTable /\ k = ScenarioK /\ q_mode = "valid"
    /\ memo.set /\ memo.q = ScenarioQuery /\ memo.row = <<2, 2>>
    /\ q_codes[1] = ScenarioQuery /\ prev_codes[1] = <<2, 2>>

\* C8: in training mode the code fed to the prior's network is, for each
\* example, a table row among the k rows nearest to that example's query, and
\* never a row outside them (that each position can be chosen is shown by the
\* reachable state WitnessTrainPick).
TrainPicksAmongNearest ==
    q_mode = "train" =>
        \A e \in DOMAIN q_codes :
            /\ chosen[e] \in 0..(k - 1)
            /\ \E i \in Rows : codes[i] = prev_codes[e] /\ AmongNearest(i, q_codes[e], k)

\* a training-mode query of two examples with k > 1 chose the first position
\* for one and the last for the other, returning rows at different distances
WitnessTrainPick ==
    /\ q_mode = "train" /\ k > 1 /\ DOMAIN q_codes = 1..2
    /\ chosen[1] = 0 /\ chosen[2] = k - 1
    /\ q_codes[1] = q_codes[2]
    /\ Dist2(prev_codes[1], q_codes[1]) < Dist2(prev_codes[2], q_codes[2])

\* ------------------------------------------------ properties of training
\* C9: in a training batch of run_acn the code written for an example and the
\* code that queries the prior for it are the same vector, so the example's
\* own row is in the searched table at distance 0 and the first neighbour
\* retrieved for it is at distance 0.
SelfRetrieval ==
    (script = "vq" /\ q_mode = "train") =>
        /\ q_codes = u_q
        /\ \A e \in batch_index :
              /\ q_knn[e] = q_codes[e]
              /\ Dist2(q_knn[nbr[e][1]], q_codes[e]) = 0

\* a training batch of run_acn in which an example retrieved its own row
\* first, while another row of the table lies at a distance above 0
WitnessSelfRetrieval ==
    /\ script = "vq" /\ q_mode = "train"
    /\ \E e \in batch_index : \E j \in Rows :
          nbr[e][1] = e /\ Dist2(codes[j], q_codes[e]) > 0

\* C10: throughout training the row of each example holds the code computed
\* for it in the latest training batch that contained it, or its initial
\* random value if none did; rows not yet visited in an epoch keep the values
\* of the previous epoch.
TableHoldsLatestCodes ==
    ~AlternateAction => codes = latest

\* the second epoch is under way: some rows were rewritten in it, others not
\* yet, and the two groups hold different codes
WitnessLatestCodes ==
    /\ pc = "train" /\ epoch_cnt = 1 /\ q_mode = "train"
    /\ todo # {} /\ todo # TrainIdx
    /\ \E i \in todo : \E j \in TrainIdx \ todo : codes[i] # codes[j]

\* C11: in evaluation mode reparameterize returns the posterior mean it was
\* given, unchanged, whatever the log-variance is
EvalReturnsMean ==
    (inp # <<>> /\ inp.fn = "reparameterize" /\ ~training) => out = inp.mu

\* a call in evaluation mode with a log-variance that would have scaled the
\* noise, on a mean of two components
WitnessEvalReturnsMean ==
    /\ inp # <<>> /\ inp.fn = "reparameterize" /\ ~training
    /\ Len(inp.mu) = 2 /\ inp.logvar[1] = 1
    /\ out = inp.mu

\* the vector of the latent tensor x at location l
At(x, l) == [d \in DOMAIN x |-> x[d][l]]

\* C12: the index VQEmbedding.forward returns for a location is in [0, K) and
\* its codebook entry is at minimal squared distance from the input vector of
\* that location; for the codebook [[-1,-1],[1,1]] the input [0.9,0.9] gets
\* index 1
VqNearestCentroid ==
    (inp # <<>> /\ inp.fn = "vq") =>
        \A l \in 1..NumLocs :
            /\ out.latents[l] \in 0..(Len(inp.weight) - 1)
            /\ \A j \in 1..Len(inp.weight) :
                  Dist2(inp.weight[out.latents[l] + 1], At(inp.z_e_x, l))
                     <= Dist2(inp.weight[j], At(inp.z_e_x, l))
            /\ (inp.weight = VqScenario.weight /\ At(inp.z_e_x, l) = VqScenario.input)
                  => out.latents[l] = 1

\* the scenario's codebook, with the scenario's input at the first location
\* and a different input at the last
WitnessVqScenario ==
    /\ inp # <<>> /\ inp.fn = "vq"
    /\ inp.weight = VqScenario.weight
    /\ At(inp.z_e_x, 1) = VqScenario.input
    /\ At(inp.z_e_x, NumLocs) # VqScenario.input
    /\ out.latents[1] = 1

\* C13: both tensors straight_through returns hold, at every location, the
\* codebook entry whose index forward returns for that location, and so equal
\* the z_q_x that decode computes from forward's latents
StraightThroughEqualsLookup ==
    (inp # <<>> /\ inp.fn = "straight_through") =>
        /\ \A l \in 1..NumLocs :
              /\ At(out.z_q_x, l) = inp.weight[out.latents[l] + 1]
              /\ At(out.z_q_x_bar, l) = inp.weight[out.latents[l] + 1]
        /\ out.z_q_x = out.decoded
        /\ out.z_q_x_bar = out.decoded

\* two locations quantized to different entries of the three-entry codebook
WitnessStraightThrough ==
    /\ inp # <<>> /\ inp.fn = "straight_through"
    /\ Len(inp.weight) = 3
    /\ out.latents[1] # out.latents[NumLocs]
    /\ At(out.z_q_x, 1) # At(out.z_q_x, NumLocs)
    /\ out.z_q_x_bar = out.decoded

\* C14: in the backward pass the gradient of z_e_x is the gradient of the
\* quantized output; the first returned tensor sends nothing to the codebook;
\* the second sends each selected row the gradients of the locations that
\* selected it, and nothing to the other rows
GradientPassThrough ==
    (inp # <<>> /\ inp.fn = "backward") =>
        /\ out.grad.z_e_x = inp.g_st
        /\ \A r \in 1..Len(inp.weight) : \A d \in 1..NumZ :
              /\ out.grad.weight_st[r][d] = 0
              /\ out.grad.weight[r][d] =
                    SumOver([l \in 1..NumLocs |-> inp.g_bar[d][l]],
                            {l \in 1..NumLocs : out.latents[l] + 1 = r})

\* a backward pass with gradients that differ from place to place, in which
\* one codebook row was selected by every location and another by none
WitnessGradient ==
    /\ inp # <<>> /\ inp.fn = "backward"
    /\ inp.g_st[1][1] # inp.g_st[NumZ][NumLocs]
    /\ \E r \in 1..Len(inp.weight) : \A l \in 1..NumLocs : out.latents[l] + 1 = r
    /\ \E r \in 1..Len(inp.weight) : \E d \in 1..NumZ : out.grad.weight[r][d] > inp.g_bar[d][1]
    /\ \E r \in 1..Len(inp.weight) : \A d \in 1..NumZ : out.grad.weight[r][d] = 0

\* a step that calls PriorNetwork.encode
EncodeStep == pc' = "returned" /\ inp' # <<>> /\ inp'.fn = "encode"

ByPolicy(key) ==
    IF key \in DOMAIN inp.dinfo /\ ~(key \in PreserveArgs /\ key \in DOMAIN inp.info)
    THEN inp.dinfo[key]
    ELSE inp.info[key]

\* C16 as stated: after a checkpoint is loaded, every key of the checkpoint's
\* info and every key of the command line's info holds the value the merge
\* policy gives it
MergePolicyAllKeys ==
    (inp # <<>> /\ inp.fn = "create_models") =>
        \A key \in DOMAIN inp.info \cup DOMAIN inp.dinfo : out[key] = ByPolicy(key)

\* C16, amended: every key but 'args' holds the value the merge policy gives
\* it; 'args' holds the checkpoint's list with the command line's args
\* appended to it
MergePolicy ==
    (inp # <<>> /\ inp.fn = "create_models") =>
        /\ DOMAIN out = DOMAIN inp.info \cup DOMAIN inp.dinfo
        /\ \A key \in DOMAIN out \ {"args"} : out[key] = ByPolicy(key)
        /\ out["args"] = Append(inp.dinfo["args"], inp.info["args"])

\* a load in which a whitelisted key on both sides keeps the command line's
\* value, a whitelisted key of the checkpoint alone and a key outside the
\* whitelist take the checkpoint's
WitnessMerge ==
    /\ inp # <<>> /\ inp.fn = "create_models"
    /\ "device" \in DOMAIN inp.info /\ "device" \in DOMAIN inp.dinfo
    /\ out["device"] = CmdVal("device")
    /\ "use_pred" \notin DOMAIN inp.info /\ "use_pred" \in DOMAIN inp.dinfo
    /\ out["use_pred"] = CkptVal("use_pred")
    /\ "learning_rate" \in DOMAIN inp.info /\ "learning_rate" \in DOMAIN inp.dinfo
    /\ out["learning_rate"] = CkptVal("learning_rate")
    /\ Len(out["args"]) = 2

\* C17: the training loop (write_log_files, then train_acn) is entered if
\* and only if no alternate-action flag is set; with a flag set no training
\* batch is processed, no optimizer step is taken, no checkpoint is written
TrainingExcludesAlternates ==
    /\ AlternateAction =>
          /\ ~log_written /\ pc \notin {"train", "valid"}
          /\ epoch_cnt = 0 /\ train_cnt = 0
          /\ opt_steps = 0
          /\ written = <<>> /\ files = {}
    /\ (~AlternateAction /\ pc # "main") => log_written

\* the pixel-CNN script has finished plotting and sampling, having queried
\* the prior, and has not trained
WitnessAlternateOnly ==
    /\ script = "pcnn" /\ args.sample /\ args.tsne
    /\ pc = "done" /\ q_mode = "valid"
    /\ opt_steps = 0 /\ ~log_written

StrictlyIncreasing(tcs) == \A i \in 1..(Len(tcs) - 1) : tcs[i] < tcs[i + 1]

\* C18: over a run and its resumes from the newest checkpoint, no two
\* checkpoint writes have the same file name: each name holds the train count
\* of its write, and the train counts of info['train_cnts'] are strictly
\* increasing, in the process and in every checkpoint file
CheckpointWrittenOnce ==
    /\ \A i, j \in 1..Len(written) : i # j => written[i] # written[j]
    /\ StrictlyIncreasing(info.train_cnts)
    /\ Len(written) = Len(info.train_cnts)
          => \A i \in 1..Len(written) : written[i] = CkptName(info.train_cnts[i])
    /\ \A f \in files :
          /\ StrictlyIncreasing(f.info.train_cnts)
          /\ f.name = CkptName(f.info.train_cnts[Len(f.info.train_cnts)])

\* a second checkpoint was written by a process that resumed from the first:
\* it has taken fewer optimizer steps than its train count has batches
WitnessResumedCheckpoint ==
    /\ Len(written) = 2 /\ Cardinality(files) = 2
    /\ opt_steps * BatchSize < train_cnt
    /\ log_written

\* C19: a model built with an encoder_output_size other than the flatten size
\* of its encoder fails in __init__, and a model whose construction succeeds
\* does not fail on the reshape in decode / vq_encode
ConfigMismatchCaught ==
    (inp # <<>> /\ inp.fn = "construct") =>
        /\ inp.encoder_output_size # out.flatten => ~out.constructed
        /\ out.constructed => out.reshape_fits

\* a step of run's loop over a data loader of the pixel-CNN script
RunStep == script = "pcnn" /\ pc \in {"train", "valid"} /\ todo # {} /\ todo' # todo

\* C20: whenever run computes the KL term for a batch, the placeholder
\* log_ones has as many rows as the batch has examples: on the first batch of
\* a pass, and on a batch of another size than the one before
LogOnesTracksBatch ==
    [][RunStep => log_ones' = Cardinality(batch_index')]_vars

\* the last batch of a training pass was smaller than the one before it, and
\* the placeholder has its size
WitnessSmallerBatch ==
    /\ script = "pcnn" /\ pc = "train" /\ todo = {}
    /\ Cardinality(batch_index) < BatchSize
    /\ log_ones = Cardinality(batch_index)

\* the number of the place p in raster order, from 1
Raster(p) == ((p[1] - 1) * CanvasShape[2] + (p[2] - 1)) * CanvasShape[3] + p[3]

\* C21: free sampling starts from an all-zero canvas and visits the places in
\* raster order, one decoder pass per place: the pass for a place sees the
\* sampled values of all earlier places and zeros at all later ones, and is
\* followed by a write of that place alone; when the loops end every place
\* was written exactly once and the passes number channels x height x width
SequentialSampling ==
    /\ [](script = "pcnn" /\ pc \in {"sample_loop", "sample_done"} =>
            /\ out.passes = Len(out.writes)
            /\ \A n \in 1..Len(out.writes) : Raster(out.writes[n]) = n
            /\ \A p \in Places :
                  /\ (Raster(p) > out.passes) => out.canvas[p[1]][p[2]][p[3]] = 0
                  /\ (Raster(p) <= out.passes) => out.canvas[p[1]][p[2]][p[3]] \in PixelValues
                  /\ (out.passes > 0 /\ Raster(p) < out.passes)
                        => out.seen[p[1]][p[2]][p[3]] = out.canvas[p[1]][p[2]][p[3]]
                  /\ (out.passes > 0 /\ Raster(p) >= out.passes)
                        => out.seen[p[1]][p[2]][p[3]] = 0
            /\ (pc = "sample_done") => out.passes = Cardinality(Places))
    /\ [][pc = "sample_loop" =>
            \A p \in Places : p # inp.place =>
                out'.canvas[p[1]][p[2]][p[3]] = out.canvas[p[1]][p[2]][p[3]]]_vars

\* sampling has ended on a canvas whose places hold different sampled values,
\* the last pass having seen all of them but the last
WitnessSampled ==
    /\ pc = "sample_done" /\ out.passes = Cardinality(Places)
    /\ out.canvas[1][1][1] # out.canvas[1][1][2]
    /\ out.seen[1][1][1] = out.canvas[1][1][1]
    /\ out.seen[CanvasShape[1]][CanvasShape[2]][CanvasShape[3]] = 0

\* C22: in every training batch the optimizer steps with a gradient whose
\* components lie in [-clip_val, clip_val]
StepsWithClippedGradient ==
    (inp # <<>> /\ inp.fn = "train_batch") =>
        (out.stepped <= ClipVal /\ out.stepped >= -ClipVal)

\* the epoch counts at which the script s validates and saves
SaveDue(s, ec) ==
    \/ ec % SaveEveryEpochs = 0
    \/ s = "pcnn" /\ ec = 1

\* the process goes on (it is not replaced by a new invocation)
SameProcess == pc' # "main"

\* C23: the step that ends a training pass counts the epoch and starts a
\* validation pass if and only if the epoch count is a multiple of
\* save_every_epochs (or is 1, in the pixel-CNN script); a checkpoint is
\* written only by the step that follows a complete validation pass, in the
\* iteration of that epoch; a validation pass, which runs once over its
\* loader, is left only by writing a checkpoint; and training passes start
\* only from the loop test, each on the full training loader
CheckpointSchedule ==
    /\ [][(pc = "train" /\ todo = {} /\ SameProcess) =>
             /\ epoch_cnt' = epoch_cnt + 1
             /\ (pc' = "valid") <=> SaveDue(script, epoch_cnt')
             /\ (pc' = "valid") => (todo' = ValidIdx /\ written' = written)
             /\ (pc' # "valid") => (written' = written /\ pc' \in {"train", "done"})]_vars
    /\ [][(written' # written) =>
             /\ pc = "valid" /\ todo = {} /\ q_mode = "valid"
             /\ SaveDue(script, epoch_cnt) /\ epoch_cnt' = epoch_cnt
             /\ Len(written') = Len(written) + 1
             /\ pc' \in {"train", "done"}]_vars
    /\ [][(pc = "valid" /\ SameProcess) =>
             IF todo = {} THEN written' # written
             ELSE pc' = "valid" /\ todo' # todo /\ todo' \subseteq todo
                  /\ epoch_cnt' = epoch_cnt]_vars
    /\ [][(pc' = "train" /\ (pc # "train" \/ todo = {})) => todo' = TrainIdx]_vars

\* the VQ script has run all its epochs in one process, validating and saving
\* after the last of them only
WitnessSchedule ==
    /\ script = "vq" /\ pc = "done" /\ epoch_cnt = NumEpochs
    /\ SaveEveryEpochs > 1 /\ NumEpochs % SaveEveryEpochs = 0
    /\ Len(written) = NumEpochs \div SaveEveryEpochs
    /\ Len(info.train_cnts) = Len(written)
    /\ opt_steps > NumEpochs

\* the epochs a loop from count start to target in steps of size runs
EpochsNeeded(start, target, size) ==
    IF start >= target THEN 0 ELSE (target - start + size - 1) \div size

Last(seq) == seq[Len(seq)]

\* C25: a process that has loaded a checkpoint starts with train_cnt equal to
\* the last entry of the checkpoint's train_cnts and epoch_cnt equal to the
\* checkpoint's epoch_cnt, and every checkpoint written after a load (or after
\* an earlier write) records an epoch count and a train count strictly greater
\* than those of the info it started from
ResumeContinuesCounters ==
    /\ []((pc = "main" /\ files # {}) =>
             /\ info = LastModel(files).info
             /\ train_cnt = Last(info.train_cnts)
             /\ epoch_cnt = info.epoch_cnt)
    /\ [][(written' # written /\ info.train_cnts # <<>>) =>
             /\ info'.epoch_cnt > info.epoch_cnt
             /\ Last(info'.train_cnts) > Last(info.train_cnts)
             /\ Len(info'.train_cnts) = Len(info.train_cnts) + 1]_vars

\* a process that resumed from the checkpoint of the first epoch has trained
\* on and written the next checkpoint, with greater counts
WitnessResumeContinued ==
    /\ pc = "done" /\ Len(info.train_cnts) = 2
    /\ info.train_cnts[2] > info.train_cnts[1]
    /\ info.epoch_cnt = epoch_cnt /\ epoch_cnt > 1
    /\ opt_steps > 0 /\ opt_steps * BatchSize < train_cnt
    /\ Cardinality(files) = 2

\* a step of the loop over the validation loader in train_acn
ValidBatchStep == pc = "valid" /\ todo # {} /\ pc' = "valid"

\* C26: a batch processed with phase 'valid' calls no opt.step() and advances
\* neither run's train_cnt nor train_acn's, so the learnable parameters, which
\* only opt.step() changes, are after a validation pass what they were before
ValidationTakesNoStep ==
    [][ValidBatchStep =>
          /\ opt_steps' = opt_steps
          /\ run_local'.train_cnt = run_local.train_cnt
          /\ train_cnt' = train_cnt]_vars

\* a validation pass of the VQ script has run over its whole loader after
\* training passes that stepped the optimizer once per batch
WitnessValidationNoStep ==
    /\ script = "vq" /\ pc = "valid" /\ todo = {} /\ q_mode = "valid"
    /\ run_local.idx = NumBatches(SizeValidSet) /\ run_local.idx > 1
    /\ run_local.train_cnt = train_cnt
    /\ opt_steps = NumBatches(SizeTrainingSet) * epoch_cnt /\ opt_steps > 0

\* every loss key of the script s has, in the info record i, a training and a
\* validation history as long as train_cnts
LossesAligned(i, s) ==
    \A key \in LossKeys(s) :
        /\ key \in DOMAIN i.train_losses /\ key \in DOMAIN i.valid_losses
        /\ Len(i.train_losses[key]) = Len(i.train_cnts)
        /\ Len(i.valid_losses[key]) = Len(i.train_cnts)

LenOr0(d, key) == IF key \in DOMAIN d THEN Len(d[key]) ELSE 0

\* C27: at every checkpoint write, and in every checkpoint file, each loss key
\* has a training and a validation history of the same length as train_cnts,
\* each history having grown by exactly one entry in the write
LossHistoryAligned ==
    /\ [](\A f \in files : LossesAligned(f.info, script))
    /\ [][(written' # written) =>
             /\ LossesAligned(info', script)
             /\ Len(info'.train_cnts) = Len(info.train_cnts) + 1
             /\ \A key \in LossKeys(script) :
                   /\ Len(info'.train_losses[key]) = LenOr0(info.train_losses, key) + 1
                   /\ Len(info'.valid_losses[key]) = LenOr0(info.valid_losses, key) + 1]_vars

\* the pixel-CNN script, started from scratch, has written its second
\* checkpoint in one process: every history holds two entries
WitnessLossHistory ==
    /\ script = "pcnn" /\ Len(info.train_cnts) = 2
    /\ opt_steps = NumBatches(SizeTrainingSet) * epoch_cnt
    /\ \E f \in files : f.info = info
    /\ Len(info.train_losses["pcnn_dml"]) = 2 /\ Len(info.valid_losses["kl"]) = 2

\* C28: a prior model built with a checkpoint has the parameters of the
\* checkpoint and the code table (and fitted index) of a freshly built model,
\* which is the table the fixed seed yields, whatever the table held when the
\* checkpoint was written
TableNotInCheckpoint ==
    (inp # <<>> /\ inp.fn = "resume") =>
        /\ out.loaded.codes = out.fresh.codes
        /\ out.loaded.knn = out.fresh.knn
        /\ out.fresh.codes = seed_codes
        /\ \A key \in {"fc1", "fc2_u", "fc2_s"} : out.loaded[key] = inp.saved[key]

\* a checkpoint written when every row of the table differed from the seeded
\* one was loaded: the parameters changed, the table is the seeded one
WitnessTableNotLoaded ==
    /\ inp # <<>> /\ inp.fn = "resume"
    /\ \A i \in DOMAIN seed_codes : inp.saved.codes[i] # seed_codes[i]
    /\ out.loaded.fc1 # out.fresh.fc1
    /\ out.loaded.codes = seed_codes

\* the order of the numbers written with the decimal digits a and b (without
\* leading zeros)
NumLess(a, b) == Len(a) < Len(b) \/ (Len(a) = Len(b) /\ LexLess(a, b))

\* C29: among the checkpoint files of one experiment, whose train counts are
\* below 10^10, the file sorted(glob('*.pt'))[-1] is the one with the largest
\* train count
LoadLastIsNewest ==
    (inp # <<>> /\ inp.fn = "load_last") =>
        /\ out.model_loadpath.train_cnt \in inp.counts
        /\ \A d \in inp.counts \ {out.model_loadpath.train_cnt} :
              NumLess(d, out.model_loadpath.train_cnt)

\* a directory with checkpoints at 9, 10 and 100 examples, in which the one
\* at 100 was chosen: without the padding the name of 9 would sort last
WitnessLoadLast ==
    /\ inp # <<>> /\ inp.fn = "load_last"
    /\ inp.counts = {<<9>>, <<1, 0>>, <<1, 0, 0>>}
    /\ out.model_loadpath.train_cnt = <<1, 0, 0>>

\* C30: for every loader with at least one batch, both phases and every
\* reconstruction-loss type the script supports, run / run_acn reaches its
\* return statement with example bound
RunReturnsExample ==
    (inp # <<>> /\ inp.fn = "run" /\ inp.num_batches >= 1) =>
        (out.result = "returned" /\ out.example = "bound")
====
